---- MODULE Spec2Model ----
(***************************************************************************)
(* Model of the Bedrock relay: api/bedrock_service.py (BedrockService) and *)
(* the generate_text and list_models views of api/views.py.                *)
(*                                                                         *)
(* Text is modelled as a sequence of fragments (strings): a Python str is  *)
(* the concatenation of its fragments, '' is << >>, `a + b` is a \o b and  *)
(* `p in s` for one of the patterns the code looks for is "p is one of     *)
(* the fragments of s".  A Python dict is a function from its keys, {} is  *)
(* the function with the empty domain.  datetime.now().isoformat() is the  *)
(* symbolic value Now.                                                     *)
(***************************************************************************)
EXTENDS Integers, Sequences, FiniteSets, TLC

VARIABLES
    view,         \* the view that serves the request: "generate_text" or "list_models"
    model_id,     \* data['model']
    prompt,       \* data['prompt']
    stream,       \* data.get('stream', True)
    options,      \* data.get('options', {})
    api_key,      \* settings.AWS_BEDROCK_API_KEY is set
    pc,           \* position of the view: "start", "constructed", "streaming", "responded"
    adapter,      \* the _generate_* method generate_text dispatched to
    calls,        \* the upstream operations invoked so far, in order
    outcome,      \* what the upstream invocation did: an error raised or a response
    result,       \* what generate_text returned or raised
    http,         \* the HTTP response the view returned
    gen,          \* the object the relay iterates (stream_generator)
    events,       \* what the upstream event stream delivered so far
    chunks,       \* the items stream_generator produced so far
    relay,        \* position of the view's generate_stream generator
    frames,       \* the framed events sent to the client so far
    listing,      \* what the upstream listing did: an error raised or a response
    models,       \* what get_available_models returned
    inputs,       \* concurrent requests: the validated data of each request
    handlers,     \* concurrent requests: the local variables of each call of the view
    responses,    \* concurrent requests: the HTTP response returned to each client
    delivered     \* concurrent requests: the framed events sent to each client

\* the state of the concurrent requests
requestVars == <<inputs, handlers, responses, delivered>>

\* the state of the one request of Spec, but for the process-wide api_key
singleVars == <<view, model_id, prompt, stream, options, pc, adapter, calls, outcome,
                result, http, gen, events, chunks, relay, frames, listing, models>>

vars == <<view, model_id, prompt, stream, options, api_key, pc, adapter, calls,
          outcome, result, http, gen, events, chunks, relay, frames, listing, models,
          inputs, handlers, responses, delivered>>

-----------------------------------------------------------------------------
(* Bounds of the model *)

MaxIdLen == 2       \* fragments in a model id
MaxPromptLen == 1   \* characters in a prompt
MaxEvents == 2      \* upstream stream events read in one request
MaxSummaries == 2   \* model summaries in one listing response
NumRequests == 2    \* requests served concurrently
MaxRequestEvents == 1   \* upstream stream events read by one of the concurrent requests

-----------------------------------------------------------------------------
(* Values *)

EmptyDict == [k \in {} |-> k]

Get(d, k, dflt) == IF k \in DOMAIN d THEN d[k] ELSE dflt

\* Python `pattern in text`, for a pattern that is one fragment
Contains(text, pattern) == \E i \in 1..Len(text) : text[i] = pattern

PromptEcho == 100   \* prompt[:100]

Take(s, n) == SubSeq(s, 1, IF Len(s) < n THEN Len(s) ELSE n)

Now == "now"

IdFragments == {"anthropic.claude", "amazon.titan", "meta.llama", "unknown.vendor"}

ModelIds == UNION {[1..n -> IdFragments] : n \in 1..MaxIdLen}

PromptChars == {"a", " "}

\* a prompt one character longer than the part of it the fallback text quotes
LongPrompt == [i \in 1..(PromptEcho + 1) |-> "a"]

Prompts == UNION {[1..n -> PromptChars] : n \in 0..MaxPromptLen} \cup {LongPrompt}

OptionSets == {EmptyDict, [max_tokens |-> 5]}

Texts == {<<"Hello!">>, <<"Paris">>}

Usage == [input_tokens |-> 3, output_tokens |-> 1]

-----------------------------------------------------------------------------
(* Exceptions.  A ClientError carries response['Error'] = {Code, Message}; *)
(* every other exception carries its text.                                 *)

ClientError(code, message) == [cls |-> "ClientError", code |-> code, message |-> message]

Exc(cls, text) == [cls |-> cls, text |-> text]

ErrorCodes == {"AccessDeniedException", "ValidationException", "ThrottlingException",
               "InvalidAccessKeyId"}

ErrorMessages == {<<"Unable to locate credentials">>, <<"InvalidAccessKeyId">>,
                  <<"AccessDeniedException">>, <<"Read timed out">>,
                  <<"The provided model identifier is invalid.">>}

\* str(e): botocore formats a ClientError with its code and its message
Str(e) ==
    IF e.cls = "ClientError"
    THEN <<"An error occurred (", e.code, ") when calling the operation: ">> \o e.message
    ELSE e.text

\* what the upstream invocation can raise
InvokeErrors ==
    {ClientError(c, m) : c \in ErrorCodes, m \in ErrorMessages}
    \cup {Exc("BotoCoreError", m) : m \in ErrorMessages}

\* what iterating the event stream can raise
StreamErrors ==
    {ClientError("ValidationException", <<"The provided model identifier is invalid.">>),
     ClientError("ThrottlingException", <<"Read timed out">>)}

-----------------------------------------------------------------------------
(* Python results: a call either returns a value or raises an exception *)

Return(v) == [tag |-> "return", value |-> v]

Raise(e) == [tag |-> "raise", exc |-> e]

\* list[0]
Index0(list) ==
    IF Len(list) = 0
    THEN Raise(Exc("IndexError", <<"list index out of range">>))
    ELSE Return(list[1])

\* response['body'].read(): botocore's StreamingBody has read(); the EventStream
\* that invoke_model_with_response_stream returns is only iterable
Read(body) ==
    IF body.kind = "StreamingBody"
    THEN Return(body.json)
    ELSE Raise(Exc("AttributeError", <<"'EventStream' object has no attribute 'read'">>))

\* len(text.split()): the maximal runs of non-blank fragments
WordCount(text) ==
    Cardinality({i \in 1..Len(text) : text[i] # " " /\ (i = 1 \/ text[i-1] = " ")})

-----------------------------------------------------------------------------
(* The upstream client *)

DefaultTemperature == 7     \* 0.7, in tenths
DefaultMaxTokens == 1000
DefaultTopP == 9            \* 0.9, in tenths

TitanBodies ==
    {[results |-> <<[outputText |-> t]>>, usage |-> Usage] : t \in Texts}
    \cup {[results |-> <<[outputText |-> <<"Hello!">>]>>],
          [results |-> <<EmptyDict>>],
          [results |-> <<>>],
          EmptyDict}

ConverseResponses ==
    {[output |-> [message |-> [content |-> <<[text |-> t]>>]],
      usage |-> Usage, stopReason |-> "max_tokens"] : t \in Texts}
    \cup {[output |-> [message |-> [content |-> <<[text |-> <<"Paris">>]>>]]],
          [output |-> [message |-> [content |-> <<>>]]],
          EmptyDict}

\* what a successful call of the operation returns
Responses(op) ==
    CASE op = "invoke_model_with_response_stream" -> {[body |-> [kind |-> "EventStream"]]}
      [] op = "invoke_model" -> {[body |-> [kind |-> "StreamingBody", json |-> b]] : b \in TitanBodies}
      [] op = "converse" -> ConverseResponses

\* what a call of the operation can do
UpstreamOutcomes(op) == {Raise(e) : e \in InvokeErrors} \cup {Return(r) : r \in Responses(op)}

\* json.loads(event['chunk']['bytes']) of the events the stream can deliver
StreamChunks ==
    {[type |-> "content_block_delta", delta |-> [text |-> t]] : t \in Texts}
    \cup {[type |-> "message_stop", usage |-> Usage, stop_reason |-> "max_tokens"],
          [type |-> "message_stop"],
          [type |-> "message_start"],
          [delta |-> [text |-> <<"Hello!">>]]}

\* one step of iterating response['body']: an event, the end of the stream, or an error
StreamSteps ==
    {[step |-> "event", chunk |-> c] : c \in StreamChunks}
    \cup {[step |-> "raise", exc |-> e] : e \in StreamErrors}
    \cup {[step |-> "end"]}

-----------------------------------------------------------------------------
(* BedrockService: the fallback generator *)

FallbackHead ==
    <<"I'm", " ", "sorry,", " ", "but", " ", "I'm", " ", "currently", " ", "unable", " ",
      "to", " ", "connect", " ", "to", " ", "AWS", " ", "Bedrock.", " ", "This", " ",
      "appears", " ", "to", " ", "be", " ", "a", " ", "demo", " ", "response.", " ",
      "Your", " ", "prompt", " ", "was:", " ", "'">>

FallbackTail ==
    <<"...'", " ", "Please", " ", "check", " ", "your", " ", "AWS", " ", "credentials", " ",
      "configuration.">>

\* faulty variant: the whole prompt is quoted
FallbackText_WholePrompt(p) == FallbackHead \o p \o FallbackTail

FallbackText(p) == FallbackHead \o Take(p, PromptEcho) \o FallbackTail

FallbackChunk(m, p) ==
    [model |-> m, created_at |-> Now, response |-> FallbackText(p), done |-> TRUE,
     usage |-> [input_tokens |-> WordCount(p), output_tokens |-> WordCount(FallbackText(p))],
     stop_reason |-> "demo_mode"]

\* a Python value: a dict, a str or a generator object
Dict(d) == [py |-> "dict", v |-> d]

PyStr(t) == [py |-> "str", v |-> t]

Generator(fn, closure) == [py |-> "generator", v |-> [fn |-> fn, closure |-> closure]]

\* faulty variant: the chunk itself is returned for a streaming request too
GenerateFallbackResponse_ChunkWhenStreaming(m, p, s) == Dict(FallbackChunk(m, p))

GenerateFallbackResponse(m, p, s) ==
    IF s
    THEN Generator("generate_fallback_stream", FallbackChunk(m, p))
    ELSE Dict(FallbackChunk(m, p))

-----------------------------------------------------------------------------
(* BedrockService: the response normalizers *)

ProcessStreamingResponse(response, m) ==
    Return(Generator("_process_streaming_response.generate_stream", [model |-> m]))

ProcessNonStreamingResponse(response, m) ==
    LET body == Read(response.body)
        first == Index0(Get(body.value, "content", <<EmptyDict>>))
    IN  IF body.tag = "raise" THEN body
        ELSE IF first.tag = "raise" THEN first
        ELSE Return(Dict([model |-> m, created_at |-> Now,
                          response |-> Get(first.value, "text", <<>>), done |-> TRUE,
                          usage |-> Get(body.value, "usage", EmptyDict),
                          stop_reason |-> Get(body.value, "stop_reason", "end_turn")]))

ProcessTitanResponse(response, m) ==
    LET body == Read(response.body)
        first == Index0(Get(body.value, "results", <<EmptyDict>>))
    IN  IF body.tag = "raise" THEN body
        ELSE IF first.tag = "raise" THEN first
        ELSE Return(Dict([model |-> m, created_at |-> Now,
                          response |-> Get(first.value, "outputText", <<>>), done |-> TRUE,
                          usage |-> Get(body.value, "usage", EmptyDict)]))

\* response.get("output", {}).get("message", {}).get("content", [{}])[0].get("text", "")
ConverseText(response) ==
    LET content == Get(Get(Get(response, "output", EmptyDict), "message", EmptyDict),
                       "content", <<EmptyDict>>)
        first == Index0(content)
    IN  IF first.tag = "raise" THEN first ELSE Return(Get(first.value, "text", <<>>))

ConverseChunk(response, m) ==
    LET text == ConverseText(response)
    IN  IF text.tag = "raise" THEN text
        ELSE Return(Dict([model |-> m, created_at |-> Now, response |-> text.value,
                          done |-> TRUE, usage |-> Get(response, "usage", EmptyDict),
                          stop_reason |-> Get(response, "stopReason", "end_turn")]))

-----------------------------------------------------------------------------
(* BedrockService: the provider adapters.  `up` is what the upstream       *)
(* operation the adapter invokes does: Raise(e) or Return(response).       *)

Params(opts) ==
    [temperature |-> Get(opts, "temperature", DefaultTemperature),
     max_tokens |-> Get(opts, "max_tokens", DefaultMaxTokens),
     top_p |-> Get(opts, "top_p", DefaultTopP)]

GenerateClaude(m, p, par, s, up) ==
    IF up.tag = "raise" THEN up
    ELSE IF s THEN ProcessStreamingResponse(up.value, m)
    ELSE ProcessNonStreamingResponse(up.value, m)

\* faulty variant: the adapter wraps its chunk in a one-element sequence when streaming
GenerateTitan_WrapsWhenStreaming(m, p, par, s, up) ==
    IF up.tag = "raise" THEN up
    ELSE LET c == ProcessTitanResponse(up.value, m)
         IN  IF c.tag = "return" /\ s
             THEN Return(Generator("generate_fallback_stream", c.value.v))
             ELSE c

GenerateTitan(m, p, par, s, up) ==
    IF up.tag = "raise" THEN up
    ELSE ProcessTitanResponse(up.value, m)

\* faulty variant: the adapter returns the chunk itself also when streaming
GenerateLlama_ChunkWhenStreaming(m, p, par, s, up) ==
    IF up.tag = "raise" THEN up
    ELSE ConverseChunk(up.value, m)

\* faulty variant: for a streaming request the converse call is left to the generator
GenerateLlama_LazyCall(m, p, par, s, up) ==
    IF s
    THEN Return(Generator("_generate_llama.generate_stream",
                          [model |-> m,
                           response |-> IF up.tag = "raise" THEN EmptyDict ELSE up.value]))
    ELSE IF up.tag = "raise" THEN up
    ELSE ConverseChunk(up.value, m)

GenerateLlama(m, p, par, s, up) ==
    IF up.tag = "raise" THEN up
    ELSE IF s THEN Return(Generator("_generate_llama.generate_stream",
                                    [model |-> m, response |-> up.value]))
    ELSE ConverseChunk(up.value, m)

\* the upstream operation each adapter invokes, with its arguments
UpstreamOp(a) ==
    CASE a = "_generate_claude" -> "invoke_model_with_response_stream"
      [] a = "_generate_titan" -> "invoke_model"
      [] a = "_generate_llama" -> "converse"

UpstreamCall(a, m, p, par, s) ==
    [op |-> UpstreamOp(a), modelId |-> m, prompt |-> p, params |-> par,
     stream |-> (a = "_generate_claude" /\ s)]

-----------------------------------------------------------------------------
(* BedrockService.generate_text *)

\* faulty variant: the single-text pattern is tried before the conversational-block one
Route_TitanFirst(m) ==
    IF Contains(m, "amazon.titan") THEN "_generate_titan"
    ELSE IF Contains(m, "anthropic.claude") THEN "_generate_claude"
    ELSE IF Contains(m, "meta.llama") THEN "_generate_llama"
    ELSE "_generate_claude"

Route(m) ==
    IF Contains(m, "anthropic.claude") THEN "_generate_claude"
    ELSE IF Contains(m, "amazon.titan") THEN "_generate_titan"
    ELSE IF Contains(m, "meta.llama") THEN "_generate_llama"
    ELSE "_generate_claude"

Dispatch(m, p, opts, s, up) ==
    CASE Route(m) = "_generate_claude" -> GenerateClaude(m, p, Params(opts), s, up)
      [] Route(m) = "_generate_titan" -> GenerateTitan(m, p, Params(opts), s, up)
      [] Route(m) = "_generate_llama" -> GenerateLlama(m, p, Params(opts), s, up)

\* the text patterns of the `except Exception` clause
IsCredentialText(text) ==
    \/ Contains(text, "Unable to locate credentials")
    \/ Contains(text, "InvalidAccessKeyId")
    \/ Contains(text, "AccessDeniedException")

\* faulty variant: ValidationException is not classified and is raised like any other code
HandleError_ValidationRaised(e, m, p, s) ==
    IF e.cls = "ClientError"
    THEN IF e.code = "AccessDeniedException" THEN Return(GenerateFallbackResponse(m, p, s))
         ELSE Raise(Exc("Exception", <<"AWS Bedrock error (", e.code, "): ">> \o e.message))
    ELSE IF IsCredentialText(Str(e)) THEN Return(GenerateFallbackResponse(m, p, s))
         ELSE Raise(Exc("Exception", <<"Generation error: ">> \o Str(e)))

\* faulty variant: every error that is not a ClientError falls back
HandleError_FallbackOnAnyOther(e, m, p, s) ==
    IF e.cls = "ClientError"
    THEN IF e.code = "AccessDeniedException" THEN Return(GenerateFallbackResponse(m, p, s))
         ELSE IF e.code = "ValidationException" THEN Return(GenerateFallbackResponse(m, p, s))
         ELSE Raise(Exc("Exception", <<"AWS Bedrock error (", e.code, "): ">> \o e.message))
    ELSE Return(GenerateFallbackResponse(m, p, s))

\* the two except clauses: what becomes of an exception raised in the try block
HandleError(e, m, p, s) ==
    IF e.cls = "ClientError"
    THEN IF e.code = "AccessDeniedException" THEN Return(GenerateFallbackResponse(m, p, s))
         ELSE IF e.code = "ValidationException" THEN Return(GenerateFallbackResponse(m, p, s))
         ELSE Raise(Exc("Exception", <<"AWS Bedrock error (", e.code, "): ">> \o e.message))
    ELSE IF IsCredentialText(Str(e)) THEN Return(GenerateFallbackResponse(m, p, s))
         ELSE Raise(Exc("Exception", <<"Generation error: ">> \o Str(e)))

GenerateText(m, p, opts, s, up) ==
    LET r == Dispatch(m, p, opts, s, up)
    IN  IF r.tag = "raise" THEN HandleError(r.exc, m, p, s) ELSE r

\* faulty variant: a failed invocation is issued a second time
UpstreamCalls_RetryOnError(m, p, opts, s, up) ==
    LET call == UpstreamCall(Route(m), m, p, Params(opts), s)
    IN  IF up.tag = "raise" THEN <<call, call>> ELSE <<call>>

\* the upstream operations generate_text invokes, in order: the one call of the adapter
\* it dispatches to; the except clauses and the fallback generator invoke none
UpstreamCalls(m, p, opts, s, up) == <<UpstreamCall(Route(m), m, p, Params(opts), s)>>

-----------------------------------------------------------------------------
(* The chunk sequences: one next() on the object generate_text returned.   *)
(* The answer is [act |-> "yield", item], [act |-> "raise", exc],          *)
(* [act |-> "stop"] (StopIteration) or [act |-> "continue"] (the generator *)
(* goes on to read the next upstream event), with the iterator's new state.*)

\* faulty variant: the chunk of a failure is not terminal
ErrorChunk_NotDone(m, e) ==
    [model |-> m, created_at |-> Now, response |-> <<>>, done |-> FALSE, error |-> Str(e)]

ErrorChunk(m, e) ==
    [model |-> m, created_at |-> Now, response |-> <<>>, done |-> TRUE, error |-> Str(e)]

KeyError(k) == Exc("KeyError", <<"'", k, "'">>)

\* faulty variant: an event of another type yields an empty non-terminal chunk
ClaudeStreamStep_ChunkForOtherTypes(m, step) ==
    IF step.step = "end" THEN [act |-> "stop", finished |-> TRUE]
    ELSE IF step.step = "raise"
    THEN [act |-> "yield", item |-> Dict(ErrorChunk(m, step.exc)), finished |-> TRUE]
    ELSE LET c == step.chunk
         IN  IF "type" \notin DOMAIN c
             THEN [act |-> "yield", item |-> Dict(ErrorChunk(m, KeyError("type"))),
                   finished |-> TRUE]
             ELSE IF c.type = "message_stop"
             THEN [act |-> "yield",
                   item |-> Dict([model |-> m, created_at |-> Now, response |-> <<>>,
                                  done |-> TRUE, usage |-> Get(c, "usage", EmptyDict),
                                  stop_reason |-> Get(c, "stop_reason", "end_turn")]),
                   finished |-> TRUE]
             ELSE [act |-> "yield",
                   item |-> Dict([model |-> m, created_at |-> Now,
                                  response |-> Get(Get(c, "delta", EmptyDict), "text", <<>>),
                                  done |-> FALSE]),
                   finished |-> FALSE]

\* the body of the for loop of _process_streaming_response.generate_stream for one
\* step of the upstream event stream; `finished` says the generator has returned
ClaudeStreamStep(m, step) ==
    IF step.step = "end" THEN [act |-> "stop", finished |-> TRUE]
    ELSE IF step.step = "raise"
    THEN [act |-> "yield", item |-> Dict(ErrorChunk(m, step.exc)), finished |-> TRUE]
    ELSE LET c == step.chunk
         IN  IF "type" \notin DOMAIN c
             THEN [act |-> "yield", item |-> Dict(ErrorChunk(m, KeyError("type"))),
                   finished |-> TRUE]
             ELSE IF c.type = "content_block_delta"
             THEN IF "delta" \notin DOMAIN c
                  THEN [act |-> "yield", item |-> Dict(ErrorChunk(m, KeyError("delta"))),
                        finished |-> TRUE]
                  ELSE IF "text" \notin DOMAIN c.delta
                  THEN [act |-> "yield", item |-> Dict(ErrorChunk(m, KeyError("text"))),
                        finished |-> TRUE]
                  ELSE [act |-> "yield",
                        item |-> Dict([model |-> m, created_at |-> Now,
                                       response |-> c.delta.text, done |-> FALSE]),
                        finished |-> FALSE]
             ELSE IF c.type = "message_stop"
             THEN [act |-> "yield",
                   item |-> Dict([model |-> m, created_at |-> Now, response |-> <<>>,
                                  done |-> TRUE, usage |-> Get(c, "usage", EmptyDict),
                                  stop_reason |-> Get(c, "stop_reason", "end_turn")]),
                   finished |-> TRUE]
             ELSE [act |-> "continue", finished |-> FALSE]

\* the keys of a chunk in the order the dict literal gives them
KeyOrder == <<"model", "created_at", "response", "done", "usage", "stop_reason", "error">>

Keys(d) == SelectSeq(KeyOrder, LAMBDA k : k \in DOMAIN d)

\* next() on the iterator `for chunk in stream_generator` holds: g.obj is the object,
\* g.pos the items it gave so far, g.finished whether it has returned or raised
IterNext(g, step) ==
    IF g.finished THEN [act |-> "stop", finished |-> TRUE]
    ELSE IF g.obj.py = "dict"
    THEN IF g.pos < Len(Keys(g.obj.v))
         THEN [act |-> "yield", item |-> PyStr(<<Keys(g.obj.v)[g.pos + 1]>>), finished |-> FALSE]
         ELSE [act |-> "stop", finished |-> TRUE]
    ELSE IF g.obj.v.fn = "generate_fallback_stream"
    THEN IF g.pos = 0
         THEN [act |-> "yield", item |-> Dict(g.obj.v.closure), finished |-> FALSE]
         ELSE [act |-> "stop", finished |-> TRUE]
    ELSE IF g.obj.v.fn = "_generate_llama.generate_stream"
    THEN IF g.pos = 0
         THEN LET c == ConverseChunk(g.obj.v.closure.response, g.obj.v.closure.model)
              IN  IF c.tag = "raise"
                  THEN [act |-> "raise", exc |-> c.exc, finished |-> TRUE]
                  ELSE [act |-> "yield", item |-> c.value, finished |-> FALSE]
         ELSE [act |-> "stop", finished |-> TRUE]
    ELSE ClaudeStreamStep(g.obj.v.closure.model, step)

\* whether next() reads the upstream event stream
ReadsUpstream(g) ==
    /\ ~g.finished
    /\ g.obj.py = "generator"
    /\ g.obj.v.fn = "_process_streaming_response.generate_stream"

-----------------------------------------------------------------------------
(* BedrockService: the model catalog *)

\* the entries of response['modelSummaries']
Summaries ==
    {[modelId |-> "anthropic.claude-v2", providerName |-> "Anthropic",
      inputModalities |-> <<"TEXT">>, outputModalities |-> <<"TEXT">>,
      modelLifecycle |-> [status |-> "ACTIVE"]],
     [modelId |-> "amazon.titan-text-express-v1", modelLifecycle |-> [status |-> "ACTIVE"]],
     [modelId |-> "meta.llama2-13b-chat-v1", providerName |-> "Meta",
      modelLifecycle |-> [status |-> "LEGACY"]],
     [modelId |-> "cohere.command-text-v14"],
     [providerName |-> "Amazon", modelLifecycle |-> [status |-> "ACTIVE"]]}

SummaryLists == UNION {[1..n -> Summaries] : n \in 0..MaxSummaries}

\* what bedrock_client.list_foundation_models() can return or raise
ListOutcomes ==
    {Return([modelSummaries |-> l]) : l \in SummaryLists}
    \cup {Return(EmptyDict),
          Raise(Exc("EndpointConnectionError", <<"Could not connect to the endpoint URL">>)),
          Raise(ClientError("AccessDeniedException", <<"not authorized">>))}

\* the descriptor appended for an ACTIVE summary
Descriptor(model) ==
    [name |-> model.modelId,
     provider |-> Get(model, "providerName", "Unknown"),
     input_modalities |-> Get(model, "inputModalities", <<>>),
     output_modalities |-> Get(model, "outputModalities", <<>>)]

\* the for loop over response.get('modelSummaries', [])
RECURSIVE ActiveDescriptors(_)
ActiveDescriptors(summaries) ==
    IF summaries = <<>> THEN Return(<<>>)
    ELSE LET model == Head(summaries)
             lifecycle == Get(model, "modelLifecycle", EmptyDict)
             rest == ActiveDescriptors(Tail(summaries))
         IN  IF ~("status" \in DOMAIN lifecycle /\ lifecycle.status = "ACTIVE") THEN rest
             ELSE IF "modelId" \notin DOMAIN model THEN Raise(KeyError("modelId"))
             ELSE IF rest.tag = "raise" THEN rest
             ELSE Return(<<Descriptor(model)>> \o rest.value)

\* the list of the except clause
DefaultModels ==
    <<[name |-> "anthropic.claude-3-5-sonnet-20240620-v1:0", provider |-> "Anthropic",
       input_modalities |-> <<"TEXT", "IMAGE">>, output_modalities |-> <<"TEXT">>],
      [name |-> "amazon.nova-pro-v1:0", provider |-> "Amazon",
       input_modalities |-> <<"TEXT", "IMAGE", "VIDEO">>, output_modalities |-> <<"TEXT">>],
      [name |-> "openai.gpt-oss-120b-1:0", provider |-> "OpenAI",
       input_modalities |-> <<"TEXT">>, output_modalities |-> <<"TEXT">>],
      [name |-> "meta.llama3-8b-instruct-v1:0", provider |-> "Meta",
       input_modalities |-> <<"TEXT">>, output_modalities |-> <<"TEXT">>]>>

\* faulty variant: a failure of the live listing gives an empty list
GetAvailableModels_EmptyOnFailure(client, listed) ==
    LET found == IF client.tag = "raise" THEN client
                 ELSE IF listed.tag = "raise" THEN listed
                 ELSE ActiveDescriptors(Get(listed.value, "modelSummaries", <<>>))
    IN  IF found.tag = "raise" THEN Return(<<>>) ELSE found

\* get_available_models, given what boto3.client('bedrock', ...) and
\* list_foundation_models() do
GetAvailableModels(client, listed) ==
    LET found == IF client.tag = "raise" THEN client
                 ELSE IF listed.tag = "raise" THEN listed
                 ELSE ActiveDescriptors(Get(listed.value, "modelSummaries", <<>>))
    IN  IF found.tag = "raise" THEN Return(DefaultModels) ELSE found

-----------------------------------------------------------------------------
(* The views: generate_text and list_models *)

NoResult == [tag |-> "none"]

NoHttp == [status |-> 0]

NoGen == [obj |-> [py |-> "none"], pos |-> 0, finished |-> TRUE]

\* json.dumps
JsonDumps(x) == [type |-> IF x.py = "dict" THEN "object" ELSE "string", value |-> x.v]

\* f"data: {json.dumps(chunk)}\n\n".encode('utf-8')
SseFrame(x) == [data |-> JsonDumps(x)]

\* faulty variant: the error payload carries a done field
ErrorFrame_WithDone(e) == SseFrame(Dict([error |-> Str(e), done |-> TRUE]))

ErrorFrame(e) == SseFrame(Dict([error |-> Str(e)]))

\* the except clauses of the view
ErrorResponse(e) ==
    IF e.cls = "ValueError"
    THEN [status |-> 500, body |-> [error |-> <<"Configuration error: ">> \o Str(e)]]
    ELSE [status |-> 500, body |-> [error |-> <<"Unexpected error: ">> \o Str(e)]]

\* faulty variant: the client is created before the API key is looked at
NewService_ClientFirst(key, client) ==
    IF client.tag = "raise"
    THEN Raise(Exc("ValueError", <<"Failed to initialize Bedrock client: ">> \o Str(client.exc)))
    ELSE IF ~key
    THEN Raise(Exc("ValueError", <<"AWS_Bedrock API key not found in environment variables">>))
    ELSE Return("BedrockService")

\* BedrockService.__init__
NewService(key, client) ==
    IF ~key
    THEN Raise(Exc("ValueError", <<"AWS_Bedrock API key not found in environment variables">>))
    ELSE IF client.tag = "raise"
    THEN Raise(Exc("ValueError", <<"Failed to initialize Bedrock client: ">> \o Str(client.exc)))
    ELSE Return("BedrockService")

ClientOutcomes == {Return("client"), Raise(Exc("BotoCoreError", <<"Unknown service">>))}

\* a validated POST to generate_text, or a GET to list_models (which has no body)
Init ==
    /\ \/ /\ view = "generate_text"
          /\ model_id \in ModelIds
          /\ prompt \in Prompts
          /\ stream \in BOOLEAN
          /\ options \in OptionSets
       \/ /\ view = "list_models"
          /\ model_id = <<>>
          /\ prompt = <<>>
          /\ stream = FALSE
          /\ options = EmptyDict
    /\ api_key \in BOOLEAN
    /\ pc = "start"
    /\ adapter = "none"
    /\ calls = <<>>
    /\ outcome = NoResult
    /\ result = NoResult
    /\ http = NoHttp
    /\ gen = NoGen
    /\ events = <<>>
    /\ chunks = <<>>
    /\ relay = "none"
    /\ frames = <<>>
    /\ listing = NoResult
    /\ models = NoResult
    /\ inputs = <<>>
    /\ handlers = <<>>
    /\ responses = <<>>
    /\ delivered = <<>>

\* bedrock_service = BedrockService()
Construct ==
    /\ pc = "start"
    /\ \E client \in ClientOutcomes :
         LET svc == NewService(api_key, client)
         IN  IF svc.tag = "raise"
             THEN /\ http' = ErrorResponse(svc.exc)
                  /\ pc' = "responded"
             ELSE /\ http' = http
                  /\ pc' = "constructed"
    /\ UNCHANGED <<requestVars, view, model_id, prompt, stream, options, api_key, adapter, calls,
                   outcome, result, gen, events, chunks, relay, frames, listing, models>>

\* bedrock_service.generate_text(...) and what the view does with its result
CallGenerateText ==
    /\ pc = "constructed"
    /\ view = "generate_text"
    /\ \E up \in UpstreamOutcomes(UpstreamOp(Route(model_id))) :
         LET r == GenerateText(model_id, prompt, options, stream, up)
         IN  /\ adapter' = Route(model_id)
             /\ calls' = calls \o UpstreamCalls(model_id, prompt, options, stream, up)
             /\ outcome' = up
             /\ result' = r
             /\ IF r.tag = "raise"
                THEN /\ http' = ErrorResponse(r.exc)
                     /\ pc' = "responded"
                     /\ UNCHANGED <<gen, relay>>
                ELSE IF stream
                THEN /\ http' = [status |-> 200, content_type |-> "text/event-stream"]
                     /\ pc' = "streaming"
                     /\ gen' = [obj |-> r.value, pos |-> 0, finished |-> FALSE]
                     /\ relay' = "created"
                ELSE /\ http' = [status |-> 200, body |-> r.value.v]
                     /\ pc' = "responded"
                     /\ UNCHANGED <<gen, relay>>
    /\ UNCHANGED <<requestVars, view, model_id, prompt, stream, options, api_key, events, chunks, frames,
                   listing, models>>

EventsRead == Len(SelectSeq(events, LAMBDA s : s.step = "event"))

\* the steps the upstream event stream can take next
NextSteps ==
    IF ~ReadsUpstream(gen) THEN {[step |-> "none"]}
    ELSE IF EventsRead < MaxEvents THEN StreamSteps
    ELSE {s \in StreamSteps : s.step # "event"}

\* faulty variant: the loop goes on after a done=true chunk
AfterYield_NeverBreaks(chunk) ==
    IF chunk.py # "dict"
    THEN [act |-> "raise",
          exc |-> Exc("AttributeError", <<"'str' object has no attribute 'get'">>)]
    ELSE [act |-> "continue"]

\* the statement after the yield of the relay loop: `if chunk.get('done', False): break`
AfterYield(chunk) ==
    IF chunk.py # "dict"   \* chunk.get: a str has no attribute 'get'
    THEN [act |-> "raise",
          exc |-> Exc("AttributeError", <<"'str' object has no attribute 'get'">>)]
    ELSE IF Get(chunk.v, "done", FALSE) THEN [act |-> "break"]
    ELSE [act |-> "continue"]

\* the consumer asks for the next frame: the relay generator is resumed where it is
\* suspended, at its start or at a yield
RelayResume ==
    /\ pc = "streaming"
    /\ relay \in {"created", "yielded", "yielded_error"}
    /\ IF relay = "created" THEN relay' = "pulling" /\ UNCHANGED frames
       ELSE IF relay = "yielded_error" THEN relay' = "ended" /\ UNCHANGED frames
       ELSE LET after == AfterYield(chunks[Len(chunks)])
            IN  IF after.act = "raise"
                THEN /\ frames' = Append(frames, ErrorFrame(after.exc))
                     /\ relay' = "yielded_error"
                ELSE IF after.act = "break"
                THEN relay' = "ended" /\ UNCHANGED frames
                ELSE relay' = "pulling" /\ UNCHANGED frames
    /\ UNCHANGED <<requestVars, view, model_id, prompt, stream, options, api_key, pc, adapter, calls,
                   outcome, result, http, gen, events, chunks, listing, models>>

\* faulty variant: the chunk sequence goes on being read after the relay was closed
RelayNext_AfterClose ==
    /\ pc = "streaming"
    /\ relay \in {"pulling", "closed"}
    /\ \E step \in NextSteps :
         LET n == IterNext(gen, step)
         IN  /\ events' = IF ReadsUpstream(gen) THEN Append(events, step) ELSE events
             /\ gen' = [gen EXCEPT !.finished = n.finished,
                                   !.pos = IF n.act = "yield" THEN @ + 1 ELSE @]
             /\ CASE n.act = "yield" ->
                       /\ chunks' = Append(chunks, n.item)
                       /\ frames' = Append(frames, SseFrame(n.item))
                       /\ relay' = "yielded"
                  [] n.act = "raise" ->
                       /\ frames' = Append(frames, ErrorFrame(n.exc))
                       /\ relay' = "yielded_error"
                       /\ UNCHANGED chunks
                  [] n.act = "stop" ->
                       /\ relay' = "ended"
                       /\ UNCHANGED <<chunks, frames>>
                  [] n.act = "continue" ->
                       UNCHANGED <<chunks, frames, relay>>
    /\ UNCHANGED <<requestVars, view, model_id, prompt, stream, options, api_key, pc, adapter, calls,
                   outcome, result, http, listing, models>>

\* `for chunk in stream_generator`: one next() of the chunk sequence (for the
\* conversational adapter, one step of the upstream event stream) and the frame
RelayNext ==
    /\ pc = "streaming"
    /\ relay = "pulling"
    /\ \E step \in NextSteps :
         LET n == IterNext(gen, step)
         IN  /\ events' = IF ReadsUpstream(gen) THEN Append(events, step) ELSE events
             /\ gen' = [gen EXCEPT !.finished = n.finished,
                                   !.pos = IF n.act = "yield" THEN @ + 1 ELSE @]
             /\ CASE n.act = "yield" ->
                       /\ chunks' = Append(chunks, n.item)
                       /\ frames' = Append(frames, SseFrame(n.item))
                       /\ relay' = "yielded"
                  [] n.act = "raise" ->
                       /\ frames' = Append(frames, ErrorFrame(n.exc))
                       /\ relay' = "yielded_error"
                       /\ UNCHANGED chunks
                  [] n.act = "stop" ->
                       /\ relay' = "ended"
                       /\ UNCHANGED <<chunks, frames>>
                  [] n.act = "continue" ->
                       UNCHANGED <<chunks, frames, relay>>
    /\ UNCHANGED <<requestVars, view, model_id, prompt, stream, options, api_key, pc, adapter, calls,
                   outcome, result, http, listing, models>>

\* the consumer goes away: the suspended relay generator is closed
RelayClose ==
    /\ pc = "streaming"
    /\ relay \in {"created", "yielded", "yielded_error"}
    /\ relay' = "closed"
    /\ UNCHANGED <<requestVars, view, model_id, prompt, stream, options, api_key, pc, adapter, calls,
                   outcome, result, http, gen, events, chunks, frames, listing, models>>

\* models = bedrock_service.get_available_models() and the response of list_models
CallGetAvailableModels ==
    /\ pc = "constructed"
    /\ view = "list_models"
    /\ \E client \in ClientOutcomes, listed \in ListOutcomes :
         LET r == GetAvailableModels(client, listed)
         IN  /\ listing' = IF client.tag = "raise" THEN client ELSE listed
             /\ models' = r
             /\ http' = IF r.tag = "raise" THEN ErrorResponse(r.exc)
                        ELSE [status |-> 200, body |-> [models |-> r.value]]
             /\ pc' = "responded"
    /\ UNCHANGED <<requestVars, view, model_id, prompt, stream, options, api_key, adapter, calls,
                   outcome, result, gen, events, chunks, relay, frames>>

Next ==
    \/ Construct
    \/ CallGenerateText
    \/ RelayResume
    \/ RelayNext
    \/ RelayClose
    \/ CallGetAvailableModels

Spec == Init /\ [][Next]_vars

-----------------------------------------------------------------------------
(* Concurrent requests to generate_text.  Each request is served by its own *)
(* call of the view; the steps of the calls are interleaved.                *)

RequestIds == 1..NumRequests

\* the validated data of the requests that are interleaved
RequestInputs ==
    {[model_id |-> <<"anthropic.claude">>, prompt |-> <<"a">>, stream |-> TRUE,
      options |-> EmptyDict],
     [model_id |-> <<"meta.llama">>, prompt |-> <<" ">>, stream |-> TRUE,
      options |-> EmptyDict],
     [model_id |-> <<"amazon.titan">>, prompt |-> <<>>, stream |-> FALSE,
      options |-> EmptyDict]}

\* what the upstream operation does for one of the interleaved requests
RequestOutcomes(op) ==
    UpstreamOutcomes(op)
    \cap {Raise(ClientError("AccessDeniedException", <<"AccessDeniedException">>)),
          Raise(ClientError("ThrottlingException", <<"Read timed out">>)),
          Return([body |-> [kind |-> "EventStream"]]),
          Return([body |-> [kind |-> "StreamingBody",
                            json |-> [results |-> <<[outputText |-> <<"Hello!">>]>>]]]),
          Return([output |-> [message |-> [content |-> <<[text |-> <<"Paris">>]>>]]])}

\* the steps the event stream of a request can take next
RequestSteps(g, evs) ==
    IF ~ReadsUpstream(g) THEN {[step |-> "none"]}
    ELSE LET steps == StreamSteps
                         \cap {[step |-> "event",
                                chunk |-> [type |-> "content_block_delta",
                                           delta |-> [text |-> <<"Hello!">>]]],
                               [step |-> "event", chunk |-> [type |-> "message_stop"]],
                               [step |-> "end"]}
         IN  IF Len(evs) < MaxRequestEvents THEN steps
             ELSE {x \in steps : x.step # "event"}

\* the local variables of a call of the view before its first statement
NewHandler ==
    [pc |-> "start", service |-> 0, outcome |-> NoResult, result |-> NoResult,
     gen |-> NoGen, events |-> <<>>, chunks |-> <<>>, relay |-> "none"]

\* faulty variant: the calls keep their variables at module level
Frame_ModuleLevel(i) == 1

\* the frame that holds the local variables of the call serving request i: its own
Frame(i) == i

InitRequests ==
    /\ api_key \in BOOLEAN
    /\ inputs \in [RequestIds -> RequestInputs]
    /\ handlers = [i \in RequestIds |-> NewHandler]
    /\ responses = [i \in RequestIds |-> NoHttp]
    /\ delivered = [i \in RequestIds |-> <<>>]
    /\ view = "generate_text"
    /\ model_id = <<>>
    /\ prompt = <<>>
    /\ stream = FALSE
    /\ options = EmptyDict
    /\ pc = "start"
    /\ adapter = "none"
    /\ calls = <<>>
    /\ outcome = NoResult
    /\ result = NoResult
    /\ http = NoHttp
    /\ gen = NoGen
    /\ events = <<>>
    /\ chunks = <<>>
    /\ relay = "none"
    /\ frames = <<>>
    /\ listing = NoResult
    /\ models = NoResult

\* bedrock_service = BedrockService(), in the call serving request i
RequestConstruct(i) ==
    LET h == handlers[Frame(i)]
    IN  /\ h.pc = "start"
        /\ \E client \in ClientOutcomes :
             LET svc == NewService(api_key, client)
             IN  IF svc.tag = "raise"
                 THEN /\ handlers' = [handlers EXCEPT ![Frame(i)] =
                                         [h EXCEPT !.pc = "responded"]]
                      /\ responses' = [responses EXCEPT ![i] = ErrorResponse(svc.exc)]
                 ELSE /\ handlers' = [handlers EXCEPT ![Frame(i)] =
                                         [h EXCEPT !.pc = "constructed", !.service = i]]
                      /\ UNCHANGED responses
        /\ UNCHANGED <<inputs, delivered, api_key, singleVars>>

\* bedrock_service.generate_text(...) and what the view does with its result,
\* in the call serving request i
RequestGenerateText(i) ==
    LET h == handlers[Frame(i)]
        d == inputs[i]
    IN  /\ h.pc = "constructed"
        /\ \E up \in RequestOutcomes(UpstreamOp(Route(d.model_id))) :
             LET r == GenerateText(d.model_id, d.prompt, d.options, d.stream, up)
                 streams == r.tag = "return" /\ d.stream
             IN  /\ handlers' = [handlers EXCEPT ![Frame(i)] =
                        [h EXCEPT !.outcome = up,
                                  !.result = r,
                                  !.pc = IF streams THEN "streaming" ELSE "responded",
                                  !.gen = IF streams
                                          THEN [obj |-> r.value, pos |-> 0, finished |-> FALSE]
                                          ELSE @,
                                  !.relay = IF streams THEN "created" ELSE @]]
                 /\ responses' = [responses EXCEPT ![i] =
                        IF r.tag = "raise" THEN ErrorResponse(r.exc)
                        ELSE IF d.stream
                        THEN [status |-> 200, content_type |-> "text/event-stream"]
                        ELSE [status |-> 200, body |-> r.value.v]]
        /\ UNCHANGED <<inputs, delivered, api_key, singleVars>>

\* the consumer of request i asks for the next frame
RequestResume(i) ==
    LET h == handlers[Frame(i)]
    IN  /\ h.pc = "streaming"
        /\ h.relay \in {"created", "yielded", "yielded_error"}
        /\ IF h.relay = "created"
           THEN /\ handlers' = [handlers EXCEPT ![Frame(i)] = [h EXCEPT !.relay = "pulling"]]
                /\ UNCHANGED delivered
           ELSE IF h.relay = "yielded_error"
           THEN /\ handlers' = [handlers EXCEPT ![Frame(i)] = [h EXCEPT !.relay = "ended"]]
                /\ UNCHANGED delivered
           ELSE LET after == AfterYield(h.chunks[Len(h.chunks)])
                IN  IF after.act = "raise"
                    THEN /\ delivered' = [delivered EXCEPT ![i] =
                                             Append(@, ErrorFrame(after.exc))]
                         /\ handlers' = [handlers EXCEPT ![Frame(i)] =
                                            [h EXCEPT !.relay = "yielded_error"]]
                    ELSE /\ handlers' = [handlers EXCEPT ![Frame(i)] =
                                [h EXCEPT !.relay = IF after.act = "break" THEN "ended"
                                                    ELSE "pulling"]]
                         /\ UNCHANGED delivered
        /\ UNCHANGED <<inputs, responses, api_key, singleVars>>

\* one next() of the chunk sequence of request i and the frame
RequestNext(i) ==
    LET h == handlers[Frame(i)]
    IN  /\ h.pc = "streaming"
        /\ h.relay = "pulling"
        /\ \E step \in RequestSteps(h.gen, h.events) :
             LET n == IterNext(h.gen, step)
                 g == [h.gen EXCEPT !.finished = n.finished,
                                    !.pos = IF n.act = "yield" THEN @ + 1 ELSE @]
                 evs == IF ReadsUpstream(h.gen) THEN Append(h.events, step) ELSE h.events
             IN  CASE n.act = "yield" ->
                        /\ handlers' = [handlers EXCEPT ![Frame(i)] =
                               [h EXCEPT !.gen = g, !.events = evs,
                                         !.chunks = Append(@, n.item),
                                         !.relay = "yielded"]]
                        /\ delivered' = [delivered EXCEPT ![i] = Append(@, SseFrame(n.item))]
                   [] n.act = "raise" ->
                        /\ handlers' = [handlers EXCEPT ![Frame(i)] =
                               [h EXCEPT !.gen = g, !.events = evs,
                                         !.relay = "yielded_error"]]
                        /\ delivered' = [delivered EXCEPT ![i] = Append(@, ErrorFrame(n.exc))]
                   [] n.act = "stop" ->
                        /\ handlers' = [handlers EXCEPT ![Frame(i)] =
                               [h EXCEPT !.gen = g, !.events = evs, !.relay = "ended"]]
                        /\ UNCHANGED delivered
                   [] n.act = "continue" ->
                        /\ handlers' = [handlers EXCEPT ![Frame(i)] =
                               [h EXCEPT !.gen = g, !.events = evs]]
                        /\ UNCHANGED delivered
        /\ UNCHANGED <<inputs, responses, api_key, singleVars>>

\* the consumer of request i goes away
RequestClose(i) ==
    LET h == handlers[Frame(i)]
    IN  /\ h.pc = "streaming"
        /\ h.relay \in {"created", "yielded", "yielded_error"}
        /\ handlers' = [handlers EXCEPT ![Frame(i)] = [h EXCEPT !.relay = "closed"]]
        /\ UNCHANGED <<inputs, responses, delivered, api_key, singleVars>>

NextRequests ==
    \E i \in RequestIds :
        \/ RequestConstruct(i)
        \/ RequestGenerateText(i)
        \/ RequestResume(i)
        \/ RequestNext(i)
        \/ RequestClose(i)

SpecRequests == InitRequests /\ [][NextRequests]_vars

-----------------------------------------------------------------------------
(* Properties *)

IsChunk(x) == x.py = "dict" /\ "done" \in DOMAIN x.v

\* the positions of the done=true chunks among the items produced
DonePositions == {i \in 1..Len(chunks) : IsChunk(chunks[i]) /\ chunks[i].v.done}

\* a typed authorization-denied or validation-rejected error
IsAuthOrValidation(e) ==
    e.cls = "ClientError" /\ e.code \in {"AccessDeniedException", "ValidationException"}

\* the message an upstream error carries
MessageOf(e) == IF e.cls = "ClientError" THEN e.message ELSE e.text

IsSuffix(t, text) ==
    Len(t) <= Len(text) /\ SubSeq(text, Len(text) - Len(t) + 1, Len(text)) = t

HasError(x) == x.py = "dict" /\ "error" \in DOMAIN x.v

\* C1: a request that generate_text does not fail yields a finite chunk sequence with
\* exactly one done=true chunk, which is the last one: the single chunk of a
\* non-streaming request is done=true, no item follows a done=true chunk, and once the
\* sequence has ended every item is a chunk and the last one is the done=true chunk.
C1_ExactlyOneDoneChunkLast ==
    /\ (pc = "responded" /\ result.tag = "return") =>
          (IsChunk(result.value) /\ result.value.v.done)
    /\ \A i \in DonePositions : i = Len(chunks)
    /\ relay = "ended" =>
          /\ \A i \in 1..Len(chunks) : IsChunk(chunks[i])
          /\ DonePositions = {Len(chunks)}

\* C2: the frames of an event stream are JSON-encoded UnifiedChunks only, and the
\* stream that has ended holds at least the done=true chunk, as its last frame.
C2_EventStreamEndsWithDoneChunk ==
    /\ \A i \in 1..Len(frames) :
          frames[i].data.type = "object" /\ "done" \in DOMAIN frames[i].data.value
    /\ relay = "ended" =>
          (Len(frames) >= 1 /\ frames[Len(frames)].data.value.done)

\* an authorization-denied or validation-rejected error occurred in this request
AuthOrValidationOccurred ==
    \/ outcome.tag = "raise" /\ IsAuthOrValidation(outcome.exc)
    \/ \E i \in 1..Len(events) :
          events[i].step = "raise" /\ IsAuthOrValidation(events[i].exc)

\* C3: an authorization-denied or validation-rejected error, at the invocation or
\* while the stream is iterated, is never surfaced: no error response, no chunk and
\* no frame carrying an error field; at the invocation the result is the Fallback.
C3_AuthValidationNeverSurfaced ==
    AuthOrValidationOccurred =>
        /\ http.status # 500
        /\ \A i \in 1..Len(chunks) : ~HasError(chunks[i])
        /\ \A i \in 1..Len(frames) : "error" \notin DOMAIN frames[i].data.value
        /\ outcome.tag = "raise" =>
              result = Return(GenerateFallbackResponse(model_id, prompt, stream))

\* C4: when the invocation raises a ClientError with code AccessDeniedException or
\* ValidationException, generate_text returns the Fallback output, a done=true chunk
\* with stop_reason "demo_mode" (as a one-element sequence when streaming), whatever
\* the model id and whichever of the two codes; the view answers 200.
C4_AuthValidationFallsBack ==
    (outcome.tag = "raise" /\ IsAuthOrValidation(outcome.exc)) =>
        /\ result.tag = "return"
        /\ http.status = 200
        /\ IF stream
           THEN /\ result.value.py = "generator"
                /\ \A i \in 1..Len(chunks) : chunks[i] = Dict(FallbackChunk(model_id, prompt))
                /\ Len(chunks) <= 1
                /\ relay = "ended" => Len(chunks) = 1
                /\ FallbackChunk(model_id, prompt).done
                /\ FallbackChunk(model_id, prompt).stop_reason = "demo_mode"
           ELSE /\ result.value.py = "dict"
                /\ result.value.v = FallbackChunk(model_id, prompt)
                /\ http.body.done /\ http.body.stop_reason = "demo_mode"
                /\ http.body.model = model_id

C4_Witness ==
    /\ outcome.tag = "raise" /\ IsAuthOrValidation(outcome.exc)
    /\ outcome.exc.code = "ValidationException"
    /\ stream /\ relay = "ended" /\ Len(chunks) = 1
    /\ chunks[1].v.stop_reason = "demo_mode"

\* C5: an invocation error that is not a typed authorization-denied or
\* validation-rejected error and whose text holds a credential pattern makes
\* generate_text return the Fallback output, whatever the type of the error.
C5_CredentialErrorFallsBack ==
    (/\ outcome.tag = "raise"
     /\ ~IsAuthOrValidation(outcome.exc)
     /\ IsCredentialText(Str(outcome.exc))) =>
        result = Return(GenerateFallbackResponse(model_id, prompt, stream))

\* C6: an invocation error that is neither authorization-denied, nor
\* validation-rejected, nor a credential-pattern error makes generate_text raise a
\* failure whose text ends with the original message; the view answers 500 with that
\* message, and no chunk (fallback or other) and no frame is produced.
C6_OtherErrorPropagates ==
    (/\ outcome.tag = "raise"
     /\ ~IsAuthOrValidation(outcome.exc)
     /\ ~IsCredentialText(Str(outcome.exc))) =>
        /\ result.tag = "raise"
        /\ IsSuffix(MessageOf(outcome.exc), result.exc.text)
        /\ pc = "responded"
        /\ http.status = 500
        /\ IsSuffix(MessageOf(outcome.exc), http.body.error)
        /\ relay = "none" /\ chunks = <<>> /\ frames = <<>>

C6_Witness ==
    /\ outcome.tag = "raise"
    /\ outcome.exc.cls = "ClientError"
    /\ outcome.exc.code = "ThrottlingException"
    /\ outcome.exc.message = <<"Read timed out">>
    /\ http.status = 500

\* the adapter patterns in priority order, and the adapter of each
Patterns == <<"anthropic.claude", "amazon.titan", "meta.llama">>

Adapters == <<"_generate_claude", "_generate_titan", "_generate_llama">>

\* C7: the adapter used is the one of the first pattern, in the order
\* conversational-block, single-text, chat-message, that the model id holds, and the
\* conversational-block adapter when it holds none; it is the adapter whose upstream
\* operation is called, whatever the prompt, the options and stream.
C7_RoutingByModelId ==
    adapter # "none" =>
        LET matching == {i \in 1..Len(Patterns) : Contains(model_id, Patterns[i])}
            first == CHOOSE i \in matching : \A j \in matching : i <= j
        IN  /\ adapter = IF matching = {} THEN "_generate_claude" ELSE Adapters[first]
            /\ Len(calls) = 1
            /\ calls[1].op = UpstreamOp(adapter)
            /\ calls[1].modelId = model_id

C7_Witness ==
    /\ model_id = <<"meta.llama", "amazon.titan">>
    /\ adapter = "_generate_titan"
    /\ calls[1].op = "invoke_model"

\* C8: a non-streaming request routed to the conversational-block adapter whose
\* upstream call succeeds is answered 200 with a single done=true chunk carrying the
\* upstream text, and generate_text does not fail.
C8_ClaudeNonStreamingAnswers ==
    (/\ pc = "responded" /\ ~stream
     /\ adapter = "_generate_claude"
     /\ outcome.tag = "return") =>
        /\ result.tag = "return"
        /\ http.status = 200
        /\ Get(http.body, "done", FALSE)
        /\ Get(http.body, "response", <<>>) \in Texts

\* C9: a streaming request for a single-text model whose upstream call succeeds and
\* is normalized delivers exactly one frame, the done=true chunk carrying the
\* upstream output text.
C9_TitanStreamOneTerminalFrame ==
    (/\ adapter = "_generate_titan" /\ stream
     /\ outcome.tag = "return" /\ result.tag = "return") =>
        /\ \A i \in 1..Len(frames) : frames[i] = SseFrame(result.value)
        /\ Len(frames) <= 1
        /\ relay = "ended" => Len(frames) = 1

\* C10: the single-text adapter makes exactly one upstream call, the single-shot
\* invoke_model, and what it makes of the response, one dict with done=true and the
\* output text, is what it makes of it for the other value of stream.
C10_TitanSingleShotSingleChunk ==
    adapter = "_generate_titan" =>
        /\ Len(calls) = 1
        /\ calls[1].op = "invoke_model"
        /\ ~calls[1].stream
        /\ (outcome.tag = "return" /\ result.tag = "return") =>
              /\ IsChunk(result.value)
              /\ result.value.v.done
              /\ result.value.v.response =
                    Get(Get(outcome.value.body.json, "results", <<EmptyDict>>)[1],
                        "outputText", <<>>)
              /\ result = GenerateTitan(model_id, prompt, Params(options), ~stream, outcome)

C10_Witness ==
    /\ adapter = "_generate_titan" /\ stream
    /\ outcome.tag = "return" /\ result.tag = "return"
    /\ result.value.v.response = <<"Paris">>
    /\ result.value.v.done

\* the concatenation of the response fields of a sequence of chunks
RECURSIVE ConcatResponses(_)
ConcatResponses(items) ==
    IF items = <<>> THEN <<>>
    ELSE Head(items).v.response \o ConcatResponses(Tail(items))

\* C11: for a single-shot-only adapter (single-text, chat-message) whose upstream call
\* returns, the response fields of the chunks a streaming request obtains, once the
\* sequence has ended, concatenate to the response field of the single chunk that
\* stream=false gives for the same model id, prompt and upstream response.
C11_SingleShotStreamSameText ==
    (/\ stream /\ relay = "ended"
     /\ adapter \in {"_generate_titan", "_generate_llama"}
     /\ outcome.tag = "return") =>
        LET single == GenerateText(model_id, prompt, options, FALSE, outcome)
        IN  single.tag = "return" =>
               /\ \A i \in 1..Len(chunks) : IsChunk(chunks[i])
               /\ ConcatResponses(chunks) = single.value.v.response

\* the content list of a converse response
ConverseContent(response) ==
    Get(Get(Get(response, "output", EmptyDict), "message", EmptyDict),
        "content", <<EmptyDict>>)

\* C12: for a chat-message model generate_text makes one single-shot converse call;
\* when the response holds a content entry, stream=true gives a sequence of exactly
\* one element, a done=true chunk whose response is the full upstream text, and
\* stream=false gives that chunk directly.
C12_LlamaOneElementSequence ==
    adapter = "_generate_llama" =>
        /\ Len(calls) = 1
        /\ calls[1].op = "converse"
        /\ ~calls[1].stream
        /\ (outcome.tag = "return" /\ ConverseContent(outcome.value) # <<>>) =>
              LET text == Get(ConverseContent(outcome.value)[1], "text", <<>>)
                  direct == GenerateText(model_id, prompt, options, FALSE, outcome)
              IN  /\ result.tag = "return"
                  /\ direct.tag = "return"
                  /\ IsChunk(direct.value)
                  /\ direct.value.v.done
                  /\ direct.value.v.response = text
                  /\ IF stream
                     THEN /\ result.value.py = "generator"
                          /\ Len(chunks) <= 1
                          /\ \A i \in 1..Len(chunks) : chunks[i] = direct.value
                          /\ Len(frames) = Len(chunks)
                          /\ relay = "ended" => Len(chunks) = 1
                     ELSE result = direct

C12_Witness ==
    /\ adapter = "_generate_llama" /\ stream /\ relay = "ended"
    /\ outcome.tag = "return"
    /\ Len(chunks) = 1
    /\ chunks[1].v.response = <<"Paris">>
    /\ chunks[1].v.done

\* an upstream stream step that is an event with a type and, for a delta, its text
IsWellFormedEvent(s) ==
    /\ s.step = "event"
    /\ "type" \in DOMAIN s.chunk
    /\ s.chunk.type = "content_block_delta" =>
          ("delta" \in DOMAIN s.chunk /\ "text" \in DOMAIN s.chunk.delta)

IsStopEvent(s) == IsWellFormedEvent(s) /\ s.chunk.type = "message_stop"

\* the chunks the claim gives for a sequence of well-formed upstream steps
RECURSIVE ChunksInEventOrder(_, _)
ChunksInEventOrder(steps, m) ==
    IF steps = <<>> \/ Head(steps).step # "event" THEN <<>>
    ELSE LET c == Head(steps).chunk
         IN  IF c.type = "content_block_delta"
             THEN <<Dict([model |-> m, created_at |-> Now, response |-> c.delta.text,
                          done |-> FALSE])>> \o ChunksInEventOrder(Tail(steps), m)
             ELSE IF c.type = "message_stop"
             THEN <<Dict([model |-> m, created_at |-> Now, response |-> <<>>, done |-> TRUE,
                          usage |-> IF "usage" \in DOMAIN c THEN c.usage ELSE EmptyDict,
                          stop_reason |-> IF "stop_reason" \in DOMAIN c THEN c.stop_reason
                                          ELSE "end_turn"])>>
             ELSE ChunksInEventOrder(Tail(steps), m)

\* C13: in a streaming conversational-block request whose upstream steps are
\* well-formed events (or the end of the stream), the chunks are those of the events in
\* order: one done=false chunk with the delta text per content_block_delta, none for
\* another type, the terminal chunk for the first message_stop; and no upstream step
\* is read after a message_stop.
C13_ChunksInUpstreamOrder ==
    (/\ adapter = "_generate_claude" /\ stream /\ outcome.tag = "return"
     /\ \A i \in 1..Len(events) : IsWellFormedEvent(events[i]) \/ events[i].step = "end") =>
        /\ chunks = ChunksInEventOrder(events, model_id)
        /\ Len(frames) = Len(chunks)
        /\ \A i \in 1..Len(events) : IsStopEvent(events[i]) => i = Len(events)

C13_Witness ==
    /\ adapter = "_generate_claude" /\ stream /\ relay = "ended"
    /\ Len(events) = 2
    /\ IsWellFormedEvent(events[1]) /\ events[1].chunk.type = "content_block_delta"
    /\ IsStopEvent(events[2]) /\ "stop_reason" \notin DOMAIN events[2].chunk
    /\ Len(chunks) = 2
    /\ chunks[1].v.response = <<"Paris">> /\ ~chunks[1].v.done
    /\ chunks[2].v.done /\ chunks[2].v.stop_reason = "end_turn"

\* C14: the relay emits one frame per chunk it pulls, in order, and stops pulling and
\* emitting after the first done=true chunk: frame i is the framing of chunk i, at most
\* one frame (an error frame) is not the framing of a chunk, no frame follows the
\* frame of a done=true chunk, and the relay never asks for a next chunk once it has
\* pulled a done=true chunk.
C14_RelayStopsAfterDone ==
    /\ Len(frames) \in {Len(chunks), Len(chunks) + 1}
    /\ \A i \in 1..Len(chunks) : frames[i] = SseFrame(chunks[i])
    /\ \A i \in DonePositions : i = Len(frames)
    /\ relay = "pulling" => DonePositions = {}
    /\ (relay = "ended" /\ DonePositions # {}) => Len(frames) = Len(chunks)

C14_Witness ==
    /\ relay = "ended" /\ Len(chunks) = 2 /\ Len(frames) = 2
    /\ ~chunks[1].v.done /\ chunks[2].v.done
    /\ frames[1] = SseFrame(chunks[1]) /\ frames[2] = SseFrame(chunks[2])

\* C15: response normalization never fails the request on a malformed upstream
\* payload: when the upstream call returns and no step of the upstream stream raises,
\* generate_text does not fail for a single-text or converse request, no chunk carries
\* an error, and the relay of a conversational-block or converse stream emits no
\* error frame.
C15_NormalizationNeverFails ==
    (/\ outcome.tag = "return"
     /\ \A i \in 1..Len(events) : events[i].step # "raise") =>
        /\ adapter \in {"_generate_titan", "_generate_llama"} => result.tag = "return"
        /\ \A i \in 1..Len(chunks) : ~HasError(chunks[i])
        /\ adapter \in {"_generate_claude", "_generate_llama"} =>
              \A i \in 1..Len(frames) : frames[i] # ErrorFrame(Exc("IndexError", <<"list index out of range">>))

\* C16: whenever generate_text answers a failed upstream call with the Fallback
\* Generator, for any model id, any prompt (the empty one included) and either stream
\* value, the output is exactly one chunk with done=true and stop_reason "demo_mode":
\* a one-element sequence when streaming (one frame, no error frame), the chunk itself
\* otherwise; nothing fails.
C16_FallbackOneTerminalChunk ==
    (outcome.tag = "raise" /\ result.tag = "return") =>
        /\ http.status = 200
        /\ IF stream
           THEN /\ result.value.py = "generator"
                /\ Len(chunks) <= 1 /\ Len(frames) = Len(chunks)
                /\ \A i \in 1..Len(chunks) :
                      /\ IsChunk(chunks[i]) /\ ~HasError(chunks[i])
                      /\ chunks[i].v.done /\ chunks[i].v.stop_reason = "demo_mode"
                      /\ frames[i] = SseFrame(chunks[i])
                /\ relay = "ended" => Len(chunks) = 1
           ELSE /\ result.value.py = "dict"
                /\ IsChunk(result.value) /\ ~HasError(result.value)
                /\ result.value.v.done /\ result.value.v.stop_reason = "demo_mode"
                /\ http.body = result.value.v

C16_Witness ==
    /\ outcome.tag = "raise" /\ outcome.exc.cls # "ClientError"
    /\ prompt = <<>>
    /\ stream /\ relay = "ended" /\ Len(chunks) = 1 /\ Len(frames) = 1
    /\ chunks[1].v.done /\ chunks[1].v.stop_reason = "demo_mode"

\* the Fallback chunks of the request: those pulled so far, or the single chunk
FallbackChunksSeen ==
    IF stream THEN {chunks[i].v : i \in 1..Len(chunks)} ELSE {result.value.v}

AccessDenied ==
    /\ outcome.tag = "raise"
    /\ outcome.exc.cls = "ClientError" /\ outcome.exc.code = "AccessDeniedException"

\* the text starts with the first PromptEcho characters of the prompt
StartsWithPromptHead(text) ==
    LET n == IF Len(prompt) < PromptEcho THEN Len(prompt) ELSE PromptEcho
    IN  Len(text) >= n /\ \A i \in 1..n : text[i] = prompt[i]

\* the text is the fixed preamble, the first PromptEcho characters of the prompt (the
\* whole prompt when it is shorter) and the fixed ending
QuotesPromptHead(text) ==
    LET n == IF Len(prompt) < PromptEcho THEN Len(prompt) ELSE PromptEcho
        h == Len(FallbackHead)
    IN  /\ Len(text) = h + n + Len(FallbackTail)
        /\ SubSeq(text, 1, h) = FallbackHead
        /\ \A i \in 1..n : text[h + i] = prompt[i]
        /\ SubSeq(text, h + n + 1, Len(text)) = FallbackTail

C18_ModelsNeverEmpty ==
    models # NoResult =>
        /\ models.tag = "return"
        /\ Len(models.value) > 0
        /\ http.status = 200 /\ http.body.models = models.value

\* C19: get_available_models never raises, and when the live listing fails (the
\* client construction or the listing call raises) it returns exactly the 4 built-in
\* descriptors, Claude, Amazon Nova, OpenAI and Meta Llama in this order, the same on
\* every such call; list_models answers 200 with them.
C19_BuiltInModelsOnFailure ==
    /\ models # NoResult => models.tag = "return"
    /\ (models # NoResult /\ listing.tag = "raise") =>
          /\ Len(models.value) = 4
          /\ [i \in 1..4 |-> models.value[i].name] =
                <<"anthropic.claude-3-5-sonnet-20240620-v1:0", "amazon.nova-pro-v1:0",
                  "openai.gpt-oss-120b-1:0", "meta.llama3-8b-instruct-v1:0">>
          /\ [i \in 1..4 |-> models.value[i].provider] =
                <<"Anthropic", "Amazon", "OpenAI", "Meta">>
          /\ \A i \in 1..4 : models.value[i].output_modalities = <<"TEXT">>
          /\ models.value = DefaultModels
          /\ http = [status |-> 200, body |-> [models |-> DefaultModels]]

C19_Witness ==
    /\ view = "list_models" /\ pc = "responded"
    /\ listing.tag = "raise" /\ listing.exc.cls = "EndpointConnectionError"
    /\ models.tag = "return" /\ Len(models.value) = 4
    /\ models.value[2].provider = "Amazon"

\* C20: no retries: in every state of every request, whatever the outcome (success,
\* fallback, propagated failure, mid-stream error, cancellation by the consumer), at
\* most one upstream invocation (invoke-with-stream, invoke single-shot or converse)
\* has been performed: exactly one once generate_text was called, the one of the
\* adapter dispatched to, and none by list_models or before the call.
C20_AtMostOneUpstreamCall ==
    /\ Len(calls) <= 1
    /\ result # NoResult =>
          /\ Len(calls) = 1
          /\ calls[1].op = UpstreamOp(adapter)
          /\ calls[1].op \in {"invoke_model_with_response_stream", "invoke_model", "converse"}
    /\ result = NoResult => calls = <<>>

C20_Witness ==
    /\ outcome.tag = "raise" /\ result.tag = "return"
    /\ stream /\ relay = "closed" /\ Len(frames) = 1
    /\ Len(calls) = 1

\* C21: when the Bedrock API key is missing, the construction of the service fails
\* with a configuration error whatever the creation of the upstream client would do
\* (it is not attempted), and the request is answered at once with HTTP 500
\* "Configuration error: AWS_Bedrock API key not found in environment variables": no
\* upstream call, no generate_text or listing result, no chunk, no frame, no stream.
C21_MissingKeyIsConfigurationError ==
    (~api_key /\ pc # "start") =>
        /\ pc = "responded"
        /\ http = [status |-> 500,
                   body |-> [error |-> <<"Configuration error: ",
                              "AWS_Bedrock API key not found in environment variables">>]]
        /\ calls = <<>> /\ outcome = NoResult /\ result = NoResult
        /\ listing = NoResult /\ models = NoResult
        /\ chunks = <<>> /\ frames = <<>> /\ events = <<>>
        /\ relay = "none" /\ gen = NoGen

C21_Witness ==
    /\ ~api_key /\ pc = "responded"
    /\ view = "generate_text" /\ stream
    /\ http.status = 500 /\ http.body.error[1] = "Configuration error: "
    /\ calls = <<>> /\ frames = <<>>

\* C22: chunk production is lazy and cancellable: nothing is read from the upstream
\* stream and no chunk is produced before the consumer pulls for the first time, an
\* upstream event is read and a chunk produced only while a pull of the consumer is
\* being served, and once the consumer has closed the relay no upstream event is
\* read, no chunk or frame is produced and no upstream call is made any more.
C22_LazyAndCancellable ==
    /\ [](relay \in {"none", "created"} => (events = <<>> /\ chunks = <<>>))
    /\ [][/\ (events' # events \/ chunks' # chunks) => relay = "pulling"
          /\ relay = "closed" => UNCHANGED <<events, chunks, frames, calls, gen, relay>>]_vars

\* the consumer went away after one delta chunk, before the done=true chunk
C22_Witness ==
    /\ adapter = "_generate_claude" /\ stream /\ relay = "closed"
    /\ outcome.tag = "return"
    /\ Len(events) = 1 /\ Len(chunks) = 1 /\ Len(frames) = 1
    /\ IsChunk(chunks[1]) /\ ~chunks[1].v.done

\* the positions at which iterating the upstream stream raised
RaisePositions == {k \in 1..Len(events) : events[k].step = "raise"}

\* C24: in a streaming conversational-block request, when iterating the upstream
\* stream raises after zero or more delta chunks, the chunk sequence produces exactly
\* one further chunk, with response empty, done=true and error the text of the failure,
\* and ends: nothing is read afterwards, the failure reaches the consumer as that
\* chunk's frame and not as an exception (no error frame), and the chunks produced
\* before are kept as they were.
C24_MidStreamFailureIsTerminalChunk ==
    (adapter = "_generate_claude" /\ stream /\ outcome.tag = "return") =>
        \A k \in RaisePositions :
            /\ k = Len(events)
            /\ gen.finished
            /\ relay \in {"yielded", "ended", "closed"}
            /\ chunks = ChunksInEventOrder(SubSeq(events, 1, k - 1), model_id)
                           \o <<Dict([model |-> model_id, created_at |-> Now,
                                      response |-> <<>>, done |-> TRUE,
                                      error |-> Str(events[k].exc)])>>
            /\ Len(frames) = Len(chunks)
            /\ \A i \in 1..Len(chunks) : frames[i] = SseFrame(chunks[i])

C24_Witness ==
    /\ adapter = "_generate_claude" /\ stream /\ relay = "ended"
    /\ Len(events) = 2 /\ events[1].step = "event" /\ events[2].step = "raise"
    /\ Len(chunks) = 2
    /\ ~chunks[1].v.done /\ chunks[1].v.response = <<"Hello!">>
    /\ chunks[2].v.done /\ chunks[2].v.response = <<>> /\ HasError(chunks[2])

\* the frames whose payload is an object with an error and no done field
RelayErrorFrames ==
    {i \in 1..Len(frames) : /\ frames[i].data.type = "object"
                            /\ "error" \in DOMAIN frames[i].data.value
                            /\ "done" \notin DOMAIN frames[i].data.value}

\* the frames of done=true chunks
DoneFrames ==
    {i \in 1..Len(frames) : /\ frames[i].data.type = "object"
                            /\ Get(frames[i].data.value, "done", FALSE)}

\* C25: when pulling from the chunk sequence or handling a chunk raises inside the
\* relay, the relay emits exactly one more frame, whose payload is {error: message}
\* and nothing else, and ends the event stream: there is at most one such frame per
\* request, it is the last frame, it is the only frame that is not the frame of a
\* pulled item, and it never follows the frame of a done=true chunk.
C25_RelayErrorFrameOnceAndLast ==
    /\ Cardinality(RelayErrorFrames) <= 1
    /\ Len(frames) = Len(chunks) + Cardinality(RelayErrorFrames)
    /\ \A i \in RelayErrorFrames :
          /\ i = Len(frames)
          /\ DOMAIN frames[i].data.value = {"error"}
          /\ relay \in {"yielded_error", "ended", "closed"}
          /\ DoneFrames = {}
    /\ relay = "yielded_error" => RelayErrorFrames = {Len(frames)}
    /\ (/\ adapter = "_generate_llama" /\ stream /\ outcome.tag = "return"
        /\ ConverseContent(outcome.value) = <<>>
        /\ relay \in {"yielded_error", "ended"}) =>
            frames = <<[data |-> [type |-> "object",
                                  value |-> [error |-> <<"list index out of range">>]]]>>

C25_Witness ==
    /\ adapter = "_generate_llama" /\ stream /\ relay = "ended"
    /\ chunks = <<>> /\ Len(frames) = 1
    /\ frames[1].data.value = [error |-> <<"list index out of range">>]

\* an invocation error that generate_text propagates
IsFatal(e) == ~IsAuthOrValidation(e) /\ ~IsCredentialText(Str(e))

\* C26: for a streaming request the upstream invocation is made before the event
\* stream response is created: a stream exists and a frame is emitted only after the
\* one upstream call was made and generate_text returned, and an invocation error
\* that is propagated gives HTTP 500 with no event stream and no frame.
C26_InvocationBeforeEventStream ==
    /\ (pc = "streaming" \/ relay # "none" \/ frames # <<>>) =>
          /\ stream
          /\ Len(calls) = 1 /\ outcome # NoResult /\ result.tag = "return"
          /\ http = [status |-> 200, content_type |-> "text/event-stream"]
    /\ (stream /\ outcome.tag = "raise" /\ IsFatal(outcome.exc)) =>
          /\ result.tag = "raise"
          /\ pc = "responded" /\ relay = "none" /\ gen = NoGen
          /\ http.status = 500 /\ "error" \in DOMAIN http.body
          /\ frames = <<>> /\ chunks = <<>>

C26_Witness ==
    /\ stream /\ adapter = "_generate_llama"
    /\ outcome.tag = "raise" /\ outcome.exc.cls = "ClientError"
    /\ outcome.exc.code = "ThrottlingException"
    /\ pc = "responded" /\ http.status = 500 /\ frames = <<>>

\* the payloads of the frames sent to the client of request i that are objects
DeliveredObjects(i) ==
    {delivered[i][k].data.value :
        k \in {j \in 1..Len(delivered[i]) : delivered[i][j].data.type = "object"}}

\* what the client of request i got is made of that request's data only: every chunk
\* names its model id, a fallback answer quotes its prompt, the frames are the
\* framing of the chunks of its own call, which are those of the events of its own
\* upstream stream, and its call uses the service it constructed
OwnDataOnly(i) ==
    /\ \A c \in DeliveredObjects(i) :
          /\ "model" \in DOMAIN c => c.model = inputs[i].model_id
          /\ Get(c, "stop_reason", "none") = "demo_mode" =>
                c = FallbackChunk(inputs[i].model_id, inputs[i].prompt)
    /\ (responses[i].status = 200 /\ "body" \in DOMAIN responses[i]) =>
          /\ responses[i].body.model = inputs[i].model_id
          /\ ~inputs[i].stream
    /\ Len(delivered[i]) \in {Len(handlers[i].chunks), Len(handlers[i].chunks) + 1}
    /\ \A k \in 1..Len(handlers[i].chunks) :
          delivered[i][k] = SseFrame(handlers[i].chunks[k])
    /\ (/\ Route(inputs[i].model_id) = "_generate_claude"
        /\ handlers[i].outcome.tag = "return") =>
           handlers[i].chunks = ChunksInEventOrder(handlers[i].events, inputs[i].model_id)
    /\ handlers[i].service \in {0, i}
    /\ (handlers[i].pc \in {"constructed", "streaming"} \/ handlers[i].result # NoResult) =>
          handlers[i].service = i
    /\ (handlers[i].pc = "start") =>
          (responses[i] = NoHttp /\ delivered[i] = <<>> /\ handlers[i] = NewHandler)

\* the requests whose state a step changes
Touched ==
    {i \in RequestIds : \/ handlers'[i] # handlers[i]
                        \/ responses'[i] # responses[i]
                        \/ delivered'[i] # delivered[i]}

\* C23: concurrent requests are isolated: under every interleaving of the steps of
\* the requests, each request uses the service it constructed itself, every chunk
\* delivered to a request carries that request's model id and is derived from its
\* own upstream response (or its own prompt, for the fallback), and a step changes
\* the state of one request only and never a request's data.
C23_RequestsIsolated ==
    /\ [](\A i \in RequestIds : OwnDataOnly(i))
    /\ [][Cardinality(Touched) <= 1 /\ inputs' = inputs]_vars

\* two requests for different models are both in the middle of their streams
C23_Witness ==
    /\ inputs[1].model_id = <<"anthropic.claude">> /\ inputs[2].model_id = <<"meta.llama">>
    /\ handlers[1].pc = "streaming" /\ handlers[2].pc = "streaming"
    /\ handlers[1].relay = "yielded" /\ handlers[2].relay = "yielded"
    /\ handlers[1].outcome.tag = "return" /\ handlers[2].outcome.tag = "raise"
    /\ Len(delivered[1]) = 1 /\ Len(delivered[2]) = 1
    /\ delivered[1][1].data.value.response = <<"Hello!">>
    /\ delivered[2][1].data.value.stop_reason = "demo_mode"
    /\ delivered[2][1].data.value.model = <<"meta.llama">>

====
